---- MODULE Spec2Model ----
(***************************************************************************)
(* A model of cubeviz/controls/units.py: the wavelength / redshift         *)
(* controller (UnitController), the unit registries (FluxUnitRegistry,     *)
(* AreaUnitRegistry) and the per-component unit classification             *)
(* (FluxUnitController).                                                   *)
(*                                                                         *)
(* Python values are modelled as tagged records so that values of          *)
(* different Python types can be compared: None, False, a list and a       *)
(* numeric array are records with different tags.  Numbers that unit       *)
(* conversion and the redshift division produce are exact decimals         *)
(* n/d * 10^e in a canonical form, so that two numbers are equal exactly   *)
(* when their records are equal.                                           *)
(***************************************************************************)
EXTENDS Integers, Sequences, FiniteSets, TLC

\* ------------------------------------------------------------------ bounds
\* Wavelength samples are drawn from 1..MaxWave; redshifts from -MaxZ..MaxZ.
MaxWave == 3
MaxZ == 2
\* Deliveries of change_redshift that may be pending at once.
MaxBus == 4
\* Entries of the configuration's new_units section.
MaxEntries == 2

\* --------------------------------------------------------------- constants
OBS_WAVELENGTH_TEXT == "Obs Wavelength"
REST_WAVELENGTH_TEXT == "Rest Wavelength"

\* ------------------------------------------------------------ Python values
PyNone == [tag |-> "None", vals |-> <<>>]
PyFalse == [tag |-> "False", vals |-> <<>>]
PyList == [tag |-> "list", vals |-> <<>>]
Arr(s) == [tag |-> "array", vals |-> s]
Unset == [tag |-> "unset", vals |-> <<>>]

\* A redshift value: None or an integer.
NoneZ == [isNone |-> TRUE, v |-> 0]
Z(v) == [isNone |-> FALSE, v |-> v]
ZValues == {NoneZ} \cup {Z(v) : v \in (0 - MaxZ)..MaxZ}

\* ------------------------------------------------------------ exact numbers
Abs(x) == IF x < 0 THEN 0 - x ELSE x

RECURSIVE GCD(_, _)
GCD(a, b) == IF b = 0 THEN a ELSE GCD(b, a % b)

Zero == [k |-> "fin", n |-> 0, d |-> 1, e |-> 0]
Inf(sign) == [k |-> "inf", n |-> sign, d |-> 1, e |-> 0]
NaN == [k |-> "nan", n |-> 0, d |-> 1, e |-> 0]

\* Move the factors 2 and 5 of the denominator into the decimal exponent.
RECURSIVE NormDen(_, _, _)
NormDen(n, d, e) ==
    IF d % 2 = 0 THEN NormDen(n * 5, d \div 2, e - 1)
    ELSE IF d % 5 = 0 THEN NormDen(n * 2, d \div 5, e - 1)
    ELSE <<n, d, e>>

\* Move the factors 10 of the numerator into the decimal exponent.
RECURSIVE NormNum(_, _, _)
NormNum(n, d, e) ==
    IF n % 10 = 0 THEN NormNum(n \div 10, d, e + 1)
    ELSE [k |-> "fin", n |-> n, d |-> d, e |-> e]

\* The canonical record of n/d * 10^e (d > 0).
Num(n, d, e) ==
    IF n = 0 THEN Zero
    ELSE LET t == NormDen(n, d, e)
             g == GCD(Abs(t[1]), t[2])
         IN  NormNum(t[1] \div g, t[2] \div g, t[3])

Sign(x) == IF x < 0 THEN 0 - 1 ELSE IF x > 0 THEN 1 ELSE 0

\* m * q for an integer m (numpy: scalar * array, element by element).
ScalarMul(m, q) ==
    CASE q.k = "fin" -> Num(q.n * m, q.d, q.e)
      [] q.k = "inf" -> IF m = 0 THEN NaN ELSE Inf(q.n * Sign(m))
      [] OTHER -> NaN

\* q / m for an integer m (numpy true division: x/0 is inf, 0/0 is nan).
ScalarDiv(q, m) ==
    CASE q.k = "fin" /\ m # 0 -> Num(q.n * Sign(m), q.d * Abs(m), q.e)
      [] q.k = "fin" /\ m = 0 -> IF q.n = 0 THEN NaN ELSE Inf(Sign(q.n))
      [] q.k = "inf" -> IF m = 0 THEN q ELSE Inf(q.n * Sign(m))
      [] OTHER -> NaN

\* q * 10^p.
Shift10(q, p) ==
    IF q.k = "fin" /\ q.n # 0 THEN [q EXCEPT !.e = q.e + p] ELSE q

MapSeq(Op(_), s) == [i \in 1..Len(s) |-> Op(s[i])]

\* ================================================================ state
VARIABLES
    \* UnitController
    original_wavelengths,      \* self._original_wavelengths: None or an array
    new_wavelengths,           \* self._new_wavelengths
    new_units,                 \* self._new_units
    redshift_z,                \* self._redshift_z
    wavelength_textbox_label,  \* self._wavelength_textbox_label
    wavelengths,               \* self._wavelengths (no attribute before the first set)
    \* collaborators of UnitController
    layout_wavelengths,        \* last layout.set_wavelengths(values, unit)
    slice_label,               \* layout._slice_controller.wavelength_label
    slice_wavelengths,         \* last _slice_controller.set_wavelengths(values, unit)
    companion_z,               \* the redshift the companion spectral viewer holds
    bus,                       \* change_redshift deliveries not yet made
    \* observation of the last handler that ran
    calls,                     \* the collaborator calls it made, in order
    raised,                    \* the exception it let escape, or "none"
    last,                      \* which handler it was
    emits,                     \* broadcasts per controller since the last user action
    changed                    \* a value-changing redshift assignment has happened

unit_vars == <<original_wavelengths, new_wavelengths, new_units, redshift_z,
               wavelength_textbox_label, wavelengths, layout_wavelengths,
               slice_label, slice_wavelengths, companion_z, bus, calls, raised,
               last, emits, changed>>

VARIABLES
    \* the astropy unit system and the two module-level registries
    enabled,                   \* names the unit system resolves (u.add_enabled_units)
    runtime_defined_units,     \* FLUX_UNIT_REGISTRY.runtime_defined_units
    runtime_pixel_units,       \* AREA_UNIT_REGISTRY.runtime_pixel_units
    runtime_solid_angle_units, \* AREA_UNIT_REGISTRY.runtime_solid_angle_units
    \* observation of the last call the application made on a registry
    reg_last                   \* the method and the item it was given

reg_vars == <<enabled, runtime_defined_units, runtime_pixel_units,
              runtime_solid_angle_units, reg_last>>

VARIABLES
    \* FluxUnitController and the configuration it is constructed from
    cfg_new_units,             \* cfg["new_units"], in the order the loop visits it
    cfg_registered_units,      \* cfg["registered_units"]
    phase,                     \* "loading" (inside __init__), "ready" or "failed"
    next_entry,                \* the entry of cfg["new_units"] the loop is at
    new_astropy_unit,          \* the local variable of __init__'s loop
    registered_units,          \* self.registered_units
    components,                \* self.components
    data,                      \* self.data
    \* observation of the last call on the controller
    f_last,                    \* the call and its arguments
    f_ret,                     \* what it returned
    f_raised                   \* the exception it let escape, or "none"

flux_vars == <<cfg_new_units, cfg_registered_units, phase, next_entry,
               new_astropy_unit, registered_units, components, data, f_last,
               f_ret, f_raised>>

vars == <<unit_vars, reg_vars, flux_vars>>

\* ==================================================== the unit system
\* Units as astropy resolves them, over a small universe of names.  A unit
\* object is a named unit times a scale; a registry item is a string, a unit
\* object, or something that is neither.
StrItem(s) == [ty |-> "str", name |-> s, scale |-> 1]
UnitItem(n, k) == [ty |-> "unit", name |-> n, scale |-> k]
NoneItem == [ty |-> "none", name |-> "", scale |-> 0]
IntItem == [ty |-> "int", name |-> "", scale |-> 5]

\* Names astropy resolves from the start, and the names a configuration or
\* the area registry may define later.
BuiltinNames == {"Jy", "mJy", "uJy", "W / (Hz m2)", "pix", "sr"}
DefinableNames == {"spaxel", "cvflux", "cvpix", "cvsr", "cvnew"}
UnitNames == BuiltinNames \cup DefinableNames

\* What a name stands for: its physical type and the base unit and multiple
\* it represents (two units are equal when these agree).
UnitDef(name) ==
    CASE name = "Jy" -> [ptype |-> "spectral flux density", base |-> "Jy", mul |-> 1000000]
      [] name = "mJy" -> [ptype |-> "spectral flux density", base |-> "Jy", mul |-> 1000]
      [] name = "uJy" -> [ptype |-> "spectral flux density", base |-> "Jy", mul |-> 1]
      [] name = "W / (Hz m2)" ->
             [ptype |-> "spectral flux density", base |-> "W / (Hz m2)", mul |-> 1]
      [] name = "cvflux" ->
             [ptype |-> "spectral flux density", base |-> "W / (Hz m2)", mul |-> 1]
      [] name = "pix" -> [ptype |-> "unknown", base |-> "pix", mul |-> 1]
      [] name = "spaxel" -> [ptype |-> "unknown", base |-> "pix", mul |-> 1]
      [] name = "cvpix" -> [ptype |-> "unknown", base |-> "pix", mul |-> 1]
      [] name = "sr" -> [ptype |-> "solid angle", base |-> "sr", mul |-> 1]
      [] name = "cvsr" -> [ptype |-> "solid angle", base |-> "sr", mul |-> 1]
      [] OTHER -> [ptype |-> "unknown", base |-> name, mul |-> 1]

\* unit.to_string()
to_string(unit) ==
    IF unit.scale = 1 THEN unit.name ELSE "10 " \o unit.name

\* u.Unit(s) over the names in `names`: the unit, or NoneItem where astropy
\* raises ValueError.
ParseUnit(s, names) ==
    IF s \in names THEN UnitItem(s, 1)
    ELSE IF \E n \in names : s = "10 " \o n
         THEN UnitItem(CHOOSE n \in names : s = "10 " \o n, 10)
         ELSE NoneItem

\* unit == other for two unit objects: the conversion factor is 1.
UnitEq(a, b) ==
    /\ UnitDef(a.name).base = UnitDef(b.name).base
    /\ UnitDef(a.name).mul * a.scale = UnitDef(b.name).mul * b.scale

\* a == b as `in` evaluates it on registry items: a unit compares with a
\* string through the unit the string parses to.
PyEq(a, b, names) ==
    CASE a.ty = "str" /\ b.ty = "str" -> a.name = b.name
      [] a.ty = "unit" /\ b.ty = "unit" -> UnitEq(a, b)
      [] a.ty = "unit" /\ b.ty = "str" ->
             LET o == ParseUnit(b.name, names) IN o.ty = "unit" /\ UnitEq(a, o)
      [] a.ty = "str" /\ b.ty = "unit" ->
             LET o == ParseUnit(a.name, names) IN o.ty = "unit" /\ UnitEq(b, o)
      [] OTHER -> a = b

\* item in list
Contains(list, item, names) ==
    \E i \in 1..Len(list) : PyEq(list[i], item, names)

\* ---------------------------------------------------- order of strings
\* The code points of the names, by which Python orders strings.
NameCodes(s) ==
    CASE s = "Jy" -> <<74, 121>>
      [] s = "mJy" -> <<109, 74, 121>>
      [] s = "uJy" -> <<117, 74, 121>>
      [] s = "W / (Hz m2)" -> <<87, 32, 47, 32, 40, 72, 122, 32, 109, 50, 41>>
      [] s = "erg / (cm2 Hz s)" ->
             <<101, 114, 103, 32, 47, 32, 40, 99, 109, 50, 32, 72, 122, 32, 115, 41>>
      [] s = "erg / (cm2 s um)" ->
             <<101, 114, 103, 32, 47, 32, 40, 99, 109, 50, 32, 115, 32, 117, 109, 41>>
      [] s = "erg / (cm2 s)" ->
             <<101, 114, 103, 32, 47, 32, 40, 99, 109, 50, 32, 115, 41>>
      [] s = "erg / (Angstrom cm2 s)" ->
             <<101, 114, 103, 32, 47, 32, 40, 65, 110, 103, 115, 116, 114, 111, 109,
               32, 99, 109, 50, 32, 115, 41>>
      [] s = "pix" -> <<112, 105, 120>>
      [] s = "spaxel" -> <<115, 112, 97, 120, 101, 108>>
      [] s = "sr" -> <<115, 114>>
      [] s = "deg2" -> <<100, 101, 103, 50>>
      [] s = "arcmin2" -> <<97, 114, 99, 109, 105, 110, 50>>
      [] s = "arcsec2" -> <<97, 114, 99, 115, 101, 99, 50>>
      [] s = "rad2" -> <<114, 97, 100, 50>>
      [] s = "cvflux" -> <<99, 118, 102, 108, 117, 120>>
      [] s = "cvpix" -> <<99, 118, 112, 105, 120>>
      [] s = "cvsr" -> <<99, 118, 115, 114>>
      [] s = "cvnew" -> <<99, 118, 110, 101, 119>>
      [] s = "bogus" -> <<98, 111, 103, 117, 115>>
      [] s = "" -> <<>>

CodePoints(s) ==
    IF \E n \in UnitNames : s = "10 " \o n
    THEN <<49, 48, 32>> \o NameCodes(CHOOSE n \in UnitNames : s = "10 " \o n)
    ELSE NameCodes(s)

\* a < b for two sequences of code points.
RECURSIVE CodesLess(_, _)
CodesLess(a, b) ==
    IF b = <<>> THEN FALSE
    ELSE IF a = <<>> THEN TRUE
    ELSE IF Head(a) # Head(b) THEN Head(a) < Head(b)
    ELSE CodesLess(Tail(a), Tail(b))

StrLess(s, t) == CodesLess(CodePoints(s), CodePoints(t))

\* sorted(list): the strings of the list in ascending order, each as often as
\* the list holds it.
RECURSIVE InsertSorted(_, _)
InsertSorted(s, sorted_list) ==
    IF sorted_list = <<>> THEN <<s>>
    ELSE IF StrLess(Head(sorted_list), s) \/ Head(sorted_list) = s
         THEN <<Head(sorted_list)>> \o InsertSorted(s, Tail(sorted_list))
         ELSE <<s>> \o sorted_list

RECURSIVE sorted(_)
sorted(list) ==
    IF list = <<>> THEN <<>> ELSE InsertSorted(Head(list), sorted(Tail(list)))

\* A listing that keeps every occurrence.
list_of_set_keep(list) == list

\* list(set(unit_list)): each string once, in some order.
RECURSIVE list_of_set(_)
list_of_set(list) ==
    IF list = <<>> THEN <<>>
    ELSE LET rest == list_of_set(Tail(list))
         IN  IF \E i \in 1..Len(rest) : rest[i] = Head(list)
             THEN rest ELSE <<Head(list)>> \o rest

\* ============================================================ registries
\* The loop of get_unit_list: a string as it is, a unit by to_string, anything
\* else left out.
RECURSIVE item_strings(_)
item_strings(item_list) ==
    IF item_list = <<>> THEN <<>>
    ELSE LET item == Head(item_list)
             rest == item_strings(Tail(item_list))
         IN  IF item.ty = "str" THEN <<item.name>> \o rest
             ELSE IF item.ty = "unit" THEN <<to_string(item)>> \o rest
             ELSE rest

\* FluxUnitRegistry._locally_defined_units; the composite units are held by
\* the strings to_string gives them.
locally_defined_units ==
    <<UnitItem("uJy", 1), UnitItem("mJy", 1), UnitItem("Jy", 1),
      StrItem("erg / (cm2 Hz s)"), StrItem("erg / (cm2 s um)"),
      StrItem("erg / (cm2 s)")>>

\* FluxUnitRegistry._equivalencies_defined_units: the flux-density units of
\* u.spectral_density's pairs, a unit once for each pair it is part of.
equivalencies_defined_units ==
    <<StrItem("erg / (Angstrom cm2 s)"), StrItem("erg / (cm2 Hz s)"),
      StrItem("erg / (cm2 Hz s)"), StrItem("erg / (Angstrom cm2 s)")>>

\* FluxUnitRegistry.get_unit_list
flux_get_unit_list(runtime) ==
    sorted(list_of_set(item_strings(
        equivalencies_defined_units \o locally_defined_units \o runtime)))

\* AreaUnitRegistry's built-in lists.
locally_defined_solid_angle_units == <<>>
locally_defined_pixel_units == <<UnitItem("spaxel", 1)>>
pixel_units == <<UnitItem("pix", 1)>>
astropy_defined_solid_angle_units == <<UnitItem("sr", 1)>>
astropy_derived_solid_angle_units ==
    <<StrItem("arcmin2"), StrItem("arcsec2"), StrItem("deg2"), StrItem("rad2")>>

\* AreaUnitRegistry.get_unit_list
area_get_unit_list(pixel, solid, pixel_only, solid_angle_only) ==
    LET pix_items == IF ~solid_angle_only
                     THEN pixel \o locally_defined_pixel_units \o pixel_units
                     ELSE <<>>
        sa_items == IF ~pixel_only
                    THEN solid \o locally_defined_solid_angle_units
                           \o astropy_defined_solid_angle_units
                           \o astropy_derived_solid_angle_units
                    ELSE <<>>
    IN  sorted(list_of_set(item_strings(pix_items \o sa_items)))

\* An insertion that takes unit objects only.
add_item_units_only(list, item, names) ==
    IF item.ty = "unit"
    THEN IF ~Contains(list, item, names) THEN Append(list, item) ELSE list
    ELSE list

\* add_unit, add_pixel_unit and add_solid_angle_unit, on the list each keeps.
add_item(list, item, names) ==
    IF item.ty = "str" \/ item.ty = "unit"
    THEN IF ~Contains(list, item, names) THEN Append(list, item) ELSE list
    ELSE list

\* Items handed to the registries: strings, unit objects, neither.
FluxItems == {StrItem("Jy"), UnitItem("Jy", 1), UnitItem("Jy", 10), StrItem("bogus"),
              NoneItem, IntItem}
PixelItems == {UnitItem("pix", 1), StrItem("spaxel"), UnitItem("spaxel", 1), NoneItem,
               IntItem}
SolidAngleItems == {UnitItem("sr", 1), StrItem("sr"), NoneItem}

RegCall(op, item) == [op |-> op, item |-> item]

add_unit(item) ==
    /\ runtime_defined_units' = add_item(runtime_defined_units, item, enabled)
    /\ reg_last' = RegCall("add_unit", item)
    /\ UNCHANGED <<enabled, runtime_pixel_units, runtime_solid_angle_units>>
    /\ UNCHANGED <<unit_vars, flux_vars>>

add_pixel_unit(item) ==
    /\ runtime_pixel_units' = add_item(runtime_pixel_units, item, enabled)
    /\ reg_last' = RegCall("add_pixel_unit", item)
    /\ UNCHANGED <<enabled, runtime_defined_units, runtime_solid_angle_units>>
    /\ UNCHANGED <<unit_vars, flux_vars>>

add_solid_angle_unit(item) ==
    /\ runtime_solid_angle_units' = add_item(runtime_solid_angle_units, item, enabled)
    /\ reg_last' = RegCall("add_solid_angle_unit", item)
    /\ UNCHANGED <<enabled, runtime_defined_units, runtime_pixel_units>>
    /\ UNCHANGED <<unit_vars, flux_vars>>

\* AREA_UNIT_REGISTRY.get_unit_list with pixel units in it defines spaxel and
\* enables it in the unit system (_locally_defined_pixel_units).
area_listing(pixel_only, solid_angle_only) ==
    /\ ~solid_angle_only
    /\ enabled' = enabled \cup {"spaxel"}
    /\ reg_last' = RegCall("get_unit_list", NoneItem)
    /\ UNCHANGED <<runtime_defined_units, runtime_pixel_units,
                   runtime_solid_angle_units>>
    /\ UNCHANGED <<unit_vars, flux_vars>>

\* The module as imported: both registries empty.
RegistryInit ==
    /\ enabled = BuiltinNames
    /\ runtime_defined_units = <<>>
    /\ runtime_pixel_units = <<>>
    /\ runtime_solid_angle_units = <<>>
    /\ reg_last = RegCall("none", NoneItem)

RegistryNext ==
    \/ \E item \in FluxItems : add_unit(item)
    \/ \E item \in PixelItems : add_pixel_unit(item)
    \/ \E item \in SolidAngleItems : add_solid_angle_unit(item)
    \/ \E po \in BOOLEAN : area_listing(po, FALSE)

\* ==================================================== FluxUnitController
Unbound == [ty |-> "unbound", name |-> "", scale |-> 0]
QuantityItem(n, k) == [ty |-> "quantity", name |-> n, scale |-> k]

\* The variants of CubeVizUnit, by their attributes.
NoneUnit ==
    [type |-> "NoneUnit", unit |-> NoneItem, unit_string |-> "",
     is_convertable |-> FALSE, numeric |-> 0, spectral_flux_density |-> NoneItem,
     area |-> NoneItem]

UnknownUnit(unit, unit_string) ==
    [type |-> "UnknownUnit", unit |-> unit, unit_string |-> unit_string,
     is_convertable |-> FALSE, numeric |-> 0, spectral_flux_density |-> NoneItem,
     area |-> NoneItem]

SpectralFluxDensity(unit, unit_string, numeric, spectral_flux_density, area, is_formatted) ==
    [type |-> IF is_formatted THEN "FormattedSpectralFluxDensity"
              ELSE "SpectralFluxDensity",
     unit |-> unit, unit_string |-> unit_string, is_convertable |-> TRUE,
     numeric |-> numeric, spectral_flux_density |-> spectral_flux_density,
     area |-> area]

\* Before any call has returned a unit.
NoReturn ==
    [type |-> "", unit |-> NoneItem, unit_string |-> "", is_convertable |-> FALSE,
     numeric |-> 0, spectral_flux_density |-> NoneItem, area |-> NoneItem]

\* string_to_unit: None for an empty string and for one astropy cannot parse.
string_to_unit(unit_string, names) ==
    IF unit_string = "" THEN NoneItem ELSE ParseUnit(unit_string, names)

\* isinstance(unit, u.Unit): a named unit defined to represent another one.
\* A unit times a scale is a CompositeUnit, a unit defined on its own an
\* IrreducibleUnit; neither is a u.Unit.
IsUnitInstance(unit) ==
    /\ unit.ty = "unit"
    /\ unit.scale = 1
    /\ unit.name \in {"Jy", "mJy", "uJy", "spaxel", "cvflux", "cvpix", "cvsr"}

\* unit_to_string: the string, or "ValueError" as the exception it raises.
unit_to_string(unit) ==
    IF unit.ty = "none" THEN [raised |-> "none", s |-> ""]
    ELSE IF unit.ty = "str" THEN [raised |-> "none", s |-> unit.name]
    ELSE IF IsUnitInstance(unit) THEN [raised |-> "none", s |-> to_string(unit)]
    ELSE IF unit.ty = "quantity"
         THEN [raised |-> "none", s |-> to_string(UnitItem(unit.name, 1))]
    ELSE [raised |-> "ValueError", s |-> ""]

\* 'spectral flux density' in unit.physical_type
IsFluxDensity(unit) == UnitDef(unit.name).ptype = "spectral flux density"

\* self.components[component_id] = cubeviz_unit
Store(comps, key, value) ==
    [k \in (DOMAIN comps) \cup {key} |-> IF k = key THEN value ELSE comps[k]]

NoComponents == [k \in {} |-> NoneUnit]

\* add_component_unit on the state st = [components, runtime]: the state it
\* leaves, what it returns and what it raises.  SpectralFluxDensity.__init__
\* adds the flux sub-unit to FLUX_UNIT_REGISTRY.
add_component_unit(st, table, names, component_id, unit) ==
    LET key == component_id.label
        us == unit_to_string(unit)
        fail(e) == [st |-> st, ret |-> NoReturn, raised |-> e]
        done(cu, rt) == [st |-> [components |-> Store(st.components, key, cu),
                                 runtime |-> rt],
                         ret |-> cu, raised |-> "none"]
    IN
    IF us.raised # "none" THEN fail(us.raised)
    ELSE IF us.s = "" THEN done(NoneUnit, st.runtime)
    ELSE IF us.s \in DOMAIN table
    THEN LET registered_unit == table[us.s]
             unit_string == IF registered_unit.has_astropy_unit_string
                            THEN registered_unit.astropy_unit_string
                            ELSE us.s
             astropy_unit == string_to_unit(unit_string, names)
         IN
         IF registered_unit.numeric = 0 /\ astropy_unit.ty = "none"
         THEN \* None.scale
              fail("AttributeError")
         ELSE IF ~registered_unit.has_area
         THEN \* registered_unit["area"]
              fail("KeyError")
         ELSE
         LET numeric == IF registered_unit.numeric # 0
                        THEN registered_unit.numeric
                        ELSE astropy_unit.scale
             sfd == string_to_unit(registered_unit.spectral_flux_density, names)
             area == string_to_unit(registered_unit.area, names)
         IN  done(SpectralFluxDensity(astropy_unit, unit_string, numeric, sfd,
                                      area, TRUE),
                  add_item(st.runtime, sfd, names))
    ELSE LET astropy_unit == string_to_unit(us.s, names)
         IN
         IF astropy_unit.ty # "none" /\ IsFluxDensity(astropy_unit)
         THEN LET sfd == string_to_unit(astropy_unit.name, names)
              IN  done(SpectralFluxDensity(astropy_unit, us.s, astropy_unit.scale,
                                           sfd, NoneItem, FALSE),
                       add_item(st.runtime, sfd, names))
         ELSE done(UnknownUnit(astropy_unit, us.s), st.runtime)

\* The loop of set_data over data.visible_components, from component i on; it
\* ends at the first call that raises.
RECURSIVE set_data_loop(_, _, _, _, _)
set_data_loop(st, table, names, comps, i) ==
    IF i > Len(comps) THEN [st |-> st, ret |-> NoReturn, raised |-> "none"]
    ELSE LET r == add_component_unit(st, table, names, comps[i].cid,
                                     StrItem(comps[i].units))
         IN  IF r.raised # "none" THEN r
             ELSE set_data_loop(r.st, table, names, comps, i + 1)

\* ----------------------------------------------------------- the inputs
\* Entries of cfg["new_units"]: a name, and a base when has_base.
Entry(name, has_base, base) == [name |-> name, has_base |-> has_base, base |-> base]
NewUnitEntries ==
    {Entry("Jy", FALSE, ""), Entry("cvflux", TRUE, "W / (Hz m2)"),
     Entry("cvpix", TRUE, "pix")}

RECURSIVE SeqsUpTo(_, _)
SeqsUpTo(S, n) ==
    IF n = 0 THEN {<<>>}
    ELSE LET shorter == SeqsUpTo(S, n - 1)
         IN  shorter \cup {Append(q, x) : q \in shorter, x \in S}

\* Records of cfg["registered_units"]; numeric 0 stands for an empty value.
Alias(has_aus, aus, numeric, sfd, has_area, area) ==
    [has_astropy_unit_string |-> has_aus, astropy_unit_string |-> aus,
     numeric |-> numeric, spectral_flux_density |-> sfd,
     has_area |-> has_area, area |-> area]
GoodAlias == Alias(TRUE, "10 Jy", 0, "Jy", TRUE, "pix")
NoAreaAlias == Alias(TRUE, "Jy", 1, "Jy", FALSE, "")
BadUnitAlias == Alias(FALSE, "", 0, "Jy", TRUE, "sr")
CustomAlias == Alias(FALSE, "", 2, "cvflux", TRUE, "pix")

OneAlias(key, rec) == [k \in {key} |-> rec]
AliasTables ==
    {[k \in {} |-> GoodAlias],
     OneAlias("MJy per sr", GoodAlias), OneAlias("MJy per sr", NoAreaAlias),
     OneAlias("MJy per sr", BadUnitAlias), OneAlias("cvflux", CustomAlias)}

\* Component ids: a string, and a ComponentID object with its label.
ComponentIds == {[kind |-> "str", label |-> "flux"], [kind |-> "cid", label |-> "mask"]}

\* Unit arguments: absent, strings, a unit, a quantity, a scaled unit (which
\* is no u.Unit).
UnitArgs ==
    {NoneItem, StrItem(""), StrItem("10 Jy"), StrItem("bogus"), StrItem("pix"),
     StrItem("MJy per sr"), StrItem("cvflux"), StrItem("W / (Hz m2)"),
     UnitItem("mJy", 1), QuantityItem("Jy", 3), UnitItem("Jy", 10)}

Comp(label, units) == [cid |-> [kind |-> "cid", label |-> label], units |-> units]
NoData == [attached |-> FALSE, visible_components |-> <<>>]
Dataset(comps) == [attached |-> TRUE, visible_components |-> comps]
Datasets ==
    {Dataset(<<Comp("flux", "Jy"), Comp("mask", "")>>),
     Dataset(<<Comp("mask", "MJy per sr")>>)}

\* ----------------------------------------------------------- the actions
Call(op, id, unit) == [op |-> op, id |-> id, unit |-> unit]

\* One turn of the loop of __init__ over cfg["new_units"], register_new_unit
\* included.  A name the unit system resolves raises nothing and assigns
\* nothing to new_astropy_unit.
LoadNewUnit ==
    /\ phase = "loading"
    /\ next_entry <= Len(cfg_new_units)
    /\ LET new_unit == cfg_new_units[next_entry]
           nau == IF new_unit.name \in enabled THEN new_astropy_unit
                  ELSE UnitItem(new_unit.name, 1)
       IN  /\ new_astropy_unit' = nau
           /\ f_last' = Call("load", new_unit.name, nau)
           /\ IF nau = Unbound
              THEN \* register_new_unit(new_astropy_unit) before any assignment
                   /\ phase' = "failed"
                   /\ f_raised' = "UnboundLocalError"
                   /\ UNCHANGED <<next_entry, reg_vars>>
              ELSE /\ phase' = "loading"
                   /\ f_raised' = "none"
                   /\ next_entry' = next_entry + 1
                   /\ enabled' = enabled \cup {nau.name}
                   /\ runtime_defined_units' =
                        IF IsFluxDensity(nau)
                        THEN add_item(runtime_defined_units, nau, enabled')
                        ELSE runtime_defined_units
                   /\ runtime_pixel_units' =
                        IF UnitEq(nau, UnitItem("pix", 1))
                        THEN add_item(runtime_pixel_units, nau, enabled')
                        ELSE runtime_pixel_units
                   /\ runtime_solid_angle_units' =
                        IF UnitDef(nau.name).ptype = "solid angle"
                        THEN add_item(runtime_solid_angle_units, nau, enabled')
                        ELSE runtime_solid_angle_units
                   /\ UNCHANGED reg_last
    /\ UNCHANGED <<cfg_new_units, cfg_registered_units, registered_units,
                   components, data, f_ret>>
    /\ UNCHANGED unit_vars

\* The end of __init__; its local variables (cfg, new_astropy_unit) go with it.
FinishInit ==
    /\ phase = "loading"
    /\ next_entry > Len(cfg_new_units)
    /\ phase' = "ready"
    /\ registered_units' = cfg_registered_units
    /\ data' = NoData
    /\ components' = NoComponents
    /\ cfg_new_units' = <<>>
    /\ cfg_registered_units' = [k \in {} |-> GoodAlias]
    /\ next_entry' = 1
    /\ new_astropy_unit' = Unbound
    /\ f_last' = Call("init", "", NoneItem)
    /\ f_raised' = "none"
    /\ UNCHANGED <<f_ret, reg_vars>>
    /\ UNCHANGED unit_vars

AddComponentUnit(component_id, unit) ==
    /\ phase = "ready"
    /\ LET r == add_component_unit(
                    [components |-> components, runtime |-> runtime_defined_units],
                    registered_units, enabled, component_id, unit)
       IN  /\ components' = r.st.components
           /\ runtime_defined_units' = r.st.runtime
           /\ f_ret' = r.ret
           /\ f_raised' = r.raised
    /\ f_last' = Call("add_component_unit", component_id.label, unit)
    /\ UNCHANGED <<cfg_new_units, cfg_registered_units, phase, next_entry,
                   new_astropy_unit, registered_units, data, enabled,
                   runtime_pixel_units, runtime_solid_angle_units, reg_last>>
    /\ UNCHANGED unit_vars

remove_component_unit(component_id) ==
    /\ phase = "ready"
    /\ components' = [k \in (DOMAIN components) \ {component_id.label} |->
                         components[k]]
    /\ f_last' = Call("remove_component_unit", component_id.label, NoneItem)
    /\ f_ret' = NoReturn
    /\ f_raised' = "none"
    /\ UNCHANGED <<cfg_new_units, cfg_registered_units, phase, next_entry,
                   new_astropy_unit, registered_units, data, reg_vars>>
    /\ UNCHANGED unit_vars

set_data(dataset) ==
    /\ phase = "ready"
    /\ data' = dataset
    /\ LET r == set_data_loop(
                    [components |-> NoComponents, runtime |-> runtime_defined_units],
                    registered_units, enabled, dataset.visible_components, 1)
       IN  /\ components' = r.st.components
           /\ runtime_defined_units' = r.st.runtime
           /\ f_raised' = r.raised
    /\ f_ret' = NoReturn
    /\ f_last' = Call("set_data", "", NoneItem)
    /\ UNCHANGED <<cfg_new_units, cfg_registered_units, phase, next_entry,
                   new_astropy_unit, registered_units, enabled,
                   runtime_pixel_units, runtime_solid_angle_units, reg_last>>
    /\ UNCHANGED unit_vars

\* No controller is being constructed.
FluxIdle ==
    /\ cfg_new_units = <<>>
    /\ cfg_registered_units = [k \in {} |-> GoodAlias]
    /\ phase = "none"
    /\ next_entry = 1
    /\ new_astropy_unit = Unbound
    /\ registered_units = [k \in {} |-> GoodAlias]
    /\ components = NoComponents
    /\ data = NoData
    /\ f_last = Call("none", "", NoneItem)
    /\ f_ret = NoReturn
    /\ f_raised = "none"

\* ======================================================== UnitController
\* self._units and self._units_titles.
units == <<"m", "cm", "mm", "um", "nm", "AA">>
unit_titles == <<"Meter", "Centimeter", "Millimeter", "Micron", "Nanometer", "Angstrom">>
original_units == "m"

\* How many of the unit make one metre, as a power of ten.
UnitExp(unit) ==
    CASE unit = "m" -> 0 [] unit = "cm" -> 2 [] unit = "mm" -> 3
      [] unit = "um" -> 6 [] unit = "nm" -> 9 [] unit = "AA" -> 10

\* (values * old_units).to(new_units) / new_units
ToUnit(vals, old, new) ==
    MapSeq(LAMBDA q : Shift10(q, UnitExp(new) - UnitExp(old)), vals)

\* list.index: the first position of x, 0 when absent (Python raises ValueError).
IndexOf(s, x) ==
    IF \E i \in 1..Len(s) : s[i] = x
    THEN CHOOSE i \in 1..Len(s) : s[i] = x /\ \A j \in 1..(i - 1) : s[j] # x
    ELSE 0

\* A conversion that hands the values back as they are.
convert_wavelengths_keep(old_wavelengths, old_units, to_units) ==
    IF old_wavelengths # PyNone THEN old_wavelengths ELSE PyFalse

convert_wavelengths(old_wavelengths, old_units, to_units) ==
    IF old_wavelengths # PyNone
    THEN Arr(ToUnit(old_wavelengths.vals, old_units, to_units))
    ELSE PyFalse

\* The test on_combobox_change makes of the conversion's result before it
\* pushes it to the layout.
IsNoUpdate(v) == v = PyNone

\* A setter that runs its body for every value, equal or not.
SameRedshift_never(cur, new_z) == FALSE

\* The guard of the setter: self._redshift_z == new_z.
SameRedshift(cur, new_z) == cur = new_z

\* self._redshift_z = new_z
StoreRedshift(cur, new_z) == new_z

\* new_z is not None and new_z > 0
IsRest(new_z) == ~new_z.isNone /\ new_z.v > 0

\* A label that is the rest label from z = 0 on.
LabelFor_nonneg(new_z) ==
    IF ~new_z.isNone /\ new_z.v >= 0 THEN REST_WAVELENGTH_TEXT
    ELSE OBS_WAVELENGTH_TEXT

LabelFor(new_z) ==
    IF IsRest(new_z) THEN REST_WAVELENGTH_TEXT ELSE OBS_WAVELENGTH_TEXT

\* self._original_wavelengths / (1 + self._redshift_z)
Redshifted(orig, z) == Arr(MapSeq(LAMBDA q : ScalarDiv(q, 1 + z.v), orig.vals))

\* (1+new_z)*self._original_wavelengths
ScaledUp(orig, z) == Arr(MapSeq(LAMBDA q : ScalarMul(1 + z.v, q), orig.vals))

\* What the controller and its collaborators hold, and what a handler did.
Cur == [z |-> redshift_z, label |-> wavelength_textbox_label, wl |-> wavelengths,
        slabel |-> slice_label, swl |-> slice_wavelengths,
        lwl |-> layout_wavelengths,
        calls |-> <<>>, raised |-> "none", emit |-> <<>>]

\* The setter past its guard, as the record of everything it leaves behind.
redshift_changed(new_z) ==
    LET s1 == [Cur EXCEPT !.z = StoreRedshift(redshift_z, new_z),
                          !.label = LabelFor(new_z),
                          !.slabel = LabelFor(new_z),
                          !.calls = <<"slice.wavelength_label">>]
    IN
    IF IsRest(new_z) /\ original_wavelengths = PyNone
    THEN \* (1+new_z)*None
         [s1 EXCEPT !.raised = "TypeError"]
    ELSE
    LET s2 == [s1 EXCEPT
                 !.lwl = [vals |-> IF IsRest(new_z)
                                   THEN ScaledUp(original_wavelengths, new_z)
                                   ELSE original_wavelengths,
                          unit |-> new_units],
                 !.calls = Append(s1.calls, "layout.set_wavelengths")]
    IN
    IF s2.z.isNone \/ original_wavelengths = PyNone
    THEN \* 1 + None, or None / (1 + z)
         [s2 EXCEPT !.raised = "TypeError"]
    ELSE
    LET w == Redshifted(original_wavelengths, s2.z)
    IN  [s2 EXCEPT !.wl = w,
                   !.swl = [vals |-> w, unit |-> new_units],
                   !.calls = s2.calls \o <<"slice.set_wavelengths", "emit">>,
                   !.emit = <<s2.z>>]

\* The redshift_z setter.
redshift_z_setter(new_z) ==
    IF SameRedshift(redshift_z, new_z) THEN Cur
    ELSE redshift_changed(new_z)

\* A listener that applies every message it receives.
change_redshift_unguarded(redshift) == redshift_changed(redshift)

\* The change_redshift listener.
change_redshift(redshift) ==
    IF redshift_z = redshift THEN Cur
    ELSE redshift_z_setter(redshift)

\* The controller's variables after a handler that left r behind.
Apply(r) ==
    /\ redshift_z' = r.z
    /\ wavelength_textbox_label' = r.label
    /\ wavelengths' = r.wl
    /\ slice_label' = r.slabel
    /\ slice_wavelengths' = r.swl
    /\ layout_wavelengths' = r.lwl
    /\ calls' = r.calls
    /\ raised' = r.raised

\* ---------------------------------------------------------------- actions
\* The handlers of UnitController, called one at a time by the application
\* (the GUI event loop) and by the message channel.

\* controller.redshift_z = new_z.
SetRedshift(new_z) ==
    /\ bus = <<>>
    /\ LET r == redshift_z_setter(new_z)
       IN  /\ Apply(r)
           /\ changed' = (changed \/ redshift_z # new_z)
           /\ last' = IF redshift_z = new_z THEN "set_same" ELSE "set_new"
    /\ UNCHANGED <<original_wavelengths, new_wavelengths, new_units, companion_z,
                   bus, emits>>
    /\ UNCHANGED <<reg_vars, flux_vars>>

\* A change_redshift message reaches the controller's listener.
ReceiveRedshift(redshift) ==
    /\ bus = <<>>
    /\ LET r == change_redshift(redshift)
       IN  /\ Apply(r)
           /\ changed' = (changed \/ redshift_z # redshift)
           /\ last' = IF redshift_z = redshift THEN "listener_same" ELSE "listener_new"
    /\ UNCHANGED <<original_wavelengths, new_wavelengths, new_units, companion_z,
                   bus, emits>>
    /\ UNCHANGED <<reg_vars, flux_vars>>

\* The names tried on on_combobox_change: titles of the combobox, and one it
\* does not hold.
ComboNames == {unit_titles[i] : i \in 1..Len(unit_titles)} \cup {"Parsec"}

on_combobox_change(new_unit_name) ==
    /\ bus = <<>>
    /\ LET i == IndexOf(unit_titles, new_unit_name)
       IN  IF i = 0
           THEN \* self._units_titles.index raises
                /\ raised' = "ValueError"
                /\ calls' = <<>>
                /\ UNCHANGED <<new_units, new_wavelengths, layout_wavelengths>>
           ELSE LET nu == units[i]
                    nw == convert_wavelengths(original_wavelengths, original_units, nu)
                IN  /\ new_units' = nu
                    /\ new_wavelengths' = nw
                    /\ raised' = "none"
                    /\ IF IsNoUpdate(nw)
                       THEN /\ calls' = <<>>
                            /\ UNCHANGED layout_wavelengths
                       ELSE /\ calls' = <<"layout.set_wavelengths">>
                            /\ layout_wavelengths' = [vals |-> nw, unit |-> nu]
    /\ last' = "on_combobox_change"
    /\ UNCHANGED <<original_wavelengths, redshift_z, wavelength_textbox_label,
                   wavelengths, slice_label, slice_wavelengths, companion_z, bus,
                   emits, changed>>
    /\ UNCHANGED <<reg_vars, flux_vars>>

\* The wavelength axis 1, 2, ..., MaxWave (metres).
RECURSIVE Axis(_)
Axis(n) == IF n = 0 THEN <<>> ELSE Append(Axis(n - 1), Num(n, 1, 0))

\* What the layout or enable can hand over as the wavelengths.
WavelengthInputs == {PyNone, Arr(Axis(MaxWave))}

\* enable(wcs, wavelength); the wcs is stored and never read.
enable(wavelength) ==
    /\ bus = <<>>
    /\ original_wavelengths' = wavelength
    /\ calls' = <<>>
    /\ raised' = "none"
    /\ last' = "enable"
    /\ UNCHANGED <<new_wavelengths, new_units, redshift_z, wavelength_textbox_label,
                   wavelengths, layout_wavelengths, slice_label, slice_wavelengths,
                   companion_z, bus, emits, changed>>
    /\ UNCHANGED <<reg_vars, flux_vars>>

\* UnitController.__init__, over the layouts it can be given.
UnitInit ==
    /\ original_wavelengths \in WavelengthInputs
    /\ new_wavelengths = PyList
    /\ new_units = original_units
    /\ redshift_z = Z(0)
    /\ wavelength_textbox_label \in {"Wavelength", OBS_WAVELENGTH_TEXT}
    /\ wavelengths = Unset
    /\ layout_wavelengths = [vals |-> original_wavelengths, unit |-> original_units]
    /\ slice_label = ""
    /\ slice_wavelengths = [vals |-> Unset, unit |-> original_units]
    /\ companion_z = Z(0)
    /\ bus = <<>>
    /\ calls = <<>>
    /\ raised = "none"
    /\ last = "init"
    /\ emits = [cubeviz |-> 0, specviz |-> 0]
    /\ changed = FALSE

\* One such controller, for the specifications of the other classes.
UnitFixed ==
    /\ UnitInit
    /\ original_wavelengths = PyNone
    /\ wavelength_textbox_label = OBS_WAVELENGTH_TEXT

Init == UnitInit /\ RegistryInit /\ FluxIdle

Next ==
    \/ \E z \in ZValues : SetRedshift(z)
    \/ \E z \in ZValues : ReceiveRedshift(z)
    \/ \E name \in ComboNames : on_combobox_change(name)
    \/ \E w \in WavelengthInputs : enable(w)

Spec == Init /\ [][Next]_vars

\* The registries alone, as any part of the application may call them.
RegistryOnly == UnitFixed /\ RegistryInit /\ FluxIdle

RegistrySpec == RegistryOnly /\ [][RegistryNext]_vars

\* FluxUnitController(): __init__ has read the configuration and is about to
\* loop over cfg["new_units"]; the registries are as the import left them.
FluxInit ==
    /\ UnitFixed
    /\ RegistryInit
    /\ cfg_new_units \in SeqsUpTo(NewUnitEntries, MaxEntries)
    /\ cfg_registered_units \in AliasTables
    /\ phase = "loading"
    /\ next_entry = 1
    /\ new_astropy_unit = Unbound
    /\ registered_units = [k \in {} |-> GoodAlias]
    /\ components = NoComponents
    /\ data = NoData
    /\ f_last = Call("none", "", NoneItem)
    /\ f_ret = NoReturn
    /\ f_raised = "none"

FluxNext ==
    \/ LoadNewUnit
    \/ FinishInit
    \/ \E id \in ComponentIds, unit \in UnitArgs : AddComponentUnit(id, unit)
    \/ \E id \in ComponentIds : remove_component_unit(id)
    \/ \E dataset \in Datasets : set_data(dataset)

FluxSpec == FluxInit /\ [][FluxNext]_vars

\* ------------------------------------------------- the redshift exchange
\* The channel between this controller and the companion spectral viewer.
\* emit calls every registered listener in turn, and a listener that sets a
\* new value emits from inside that call: the deliveries of the latest
\* broadcast are made first.

\* The order in which the channel calls its two listeners.
Listeners == {"cubeviz", "specviz"}

\* specviz_dispatch.change_redshift.emit: one delivery per registered listener.
Deliveries(emit, first) ==
    IF emit = <<>> THEN <<>>
    ELSE LET second == CHOOSE l \in Listeners : l # first
         IN  <<[to |-> first, z |-> emit[1]], [to |-> second, z |-> emit[1]]>>

\* controller.redshift_z = new_z, with the broadcast on the channel.
ExchangeSet(new_z) ==
    /\ bus = <<>>
    /\ LET r == redshift_z_setter(new_z)
       IN  /\ Apply(r)
           /\ \E first \in Listeners : bus' = Deliveries(r.emit, first)
           /\ emits' = [cubeviz |-> Len(r.emit), specviz |-> 0]
           /\ changed' = (changed \/ redshift_z # new_z)
           /\ last' = IF redshift_z = new_z THEN "set_same" ELSE "set_new"
    /\ UNCHANGED <<original_wavelengths, new_wavelengths, new_units, companion_z>>
    /\ UNCHANGED <<reg_vars, flux_vars>>

\* The companion viewer's user changes the redshift there: the viewer stores
\* the value and broadcasts it.
CompanionSet(z) ==
    /\ bus = <<>>
    /\ ~z.isNone
    /\ z # companion_z
    /\ companion_z' = z
    /\ \E first \in Listeners : bus' = Deliveries(<<z>>, first)
    /\ emits' = [cubeviz |-> 0, specviz |-> 1]
    /\ calls' = <<>>
    /\ raised' = "none"
    /\ last' = "companion_set"
    /\ UNCHANGED <<original_wavelengths, new_wavelengths, new_units, redshift_z,
                   wavelength_textbox_label, wavelengths, layout_wavelengths,
                   slice_label, slice_wavelengths, changed>>
    /\ UNCHANGED <<reg_vars, flux_vars>>

\* The next pending delivery reaches this controller's listener.
DeliverCubeviz ==
    /\ bus # <<>>
    /\ Head(bus).to = "cubeviz"
    /\ Len(bus) <= MaxBus
    /\ LET m == Head(bus)
           r == change_redshift(m.z)
       IN  /\ Apply(r)
           /\ \E first \in Listeners : bus' = Deliveries(r.emit, first) \o Tail(bus)
           /\ emits' = [emits EXCEPT !.cubeviz = @ + Len(r.emit)]
           /\ changed' = (changed \/ redshift_z # m.z)
           /\ last' = IF redshift_z = m.z THEN "listener_same" ELSE "listener_new"
    /\ UNCHANGED <<original_wavelengths, new_wavelengths, new_units, companion_z>>
    /\ UNCHANGED <<reg_vars, flux_vars>>

\* The next pending delivery reaches the companion viewer's listener: a value
\* equal to the one it holds is ignored, another is stored and broadcast.
DeliverSpecviz ==
    /\ bus # <<>>
    /\ Head(bus).to = "specviz"
    /\ Len(bus) <= MaxBus
    /\ LET m == Head(bus)
           emit == IF m.z = companion_z THEN <<>> ELSE <<m.z>>
       IN  /\ companion_z' = m.z
           /\ \E first \in Listeners : bus' = Deliveries(emit, first) \o Tail(bus)
           /\ emits' = [emits EXCEPT !.specviz = @ + Len(emit)]
    /\ calls' = <<>>
    /\ raised' = "none"
    /\ last' = "companion_listener"
    /\ UNCHANGED <<original_wavelengths, new_wavelengths, new_units, redshift_z,
                   wavelength_textbox_label, wavelengths, layout_wavelengths,
                   slice_label, slice_wavelengths, changed>>
    /\ UNCHANGED <<reg_vars, flux_vars>>

Deliver == DeliverCubeviz \/ DeliverSpecviz

ExchangeNext ==
    \/ \E z \in ZValues : ExchangeSet(z)
    \/ \E z \in ZValues : CompanionSet(z)
    \/ DeliverCubeviz
    \/ DeliverSpecviz

\* The channel is synchronous: a broadcast's deliveries are always made.
ExchangeSpec == Init /\ [][ExchangeNext]_vars /\ WF_vars(Deliver)

\* ================================================================ claims

\* C1: assigning redshift_z, directly or through the change_redshift
\* listener, a value equal to the current one changes neither the redshift,
\* the label nor the derived wavelengths, and makes no call to the layout or
\* the slice display and no broadcast.
C1_RedshiftIdempotent ==
    [][last' \in {"set_same", "listener_same"} =>
         /\ UNCHANGED <<redshift_z, wavelength_textbox_label, wavelengths,
                        layout_wavelengths, slice_label, slice_wavelengths>>
         /\ calls' = <<>>
         /\ raised' = "none"]_vars

\* After a change of redshift, the current value was assigned again.
C1_Witness ==
    /\ last \in {"set_same", "listener_same"}
    /\ changed
    /\ redshift_z # Z(0)

\* original / (1+z) expressed in the selected display unit.
ExpectedWavelengths ==
    convert_wavelengths(Redshifted(original_wavelengths, redshift_z),
                        original_units, new_units)

\* C2: when the setter has returned from a value-changing assignment, the
\* wavelengths it computed and pushed to the slice display are
\* original_wavelengths / (1+z) expressed in the selected display unit.
C2_RedshiftTransform ==
    (last = "set_new" /\ raised = "none") =>
        /\ wavelengths = ExpectedWavelengths
        /\ slice_wavelengths = [vals |-> ExpectedWavelengths, unit |-> new_units]

\* C3: once a value-changing assignment has happened, the controller's label
\* and the label given to the slice display are the rest label exactly when
\* the stored redshift is > 0, and the observed label otherwise.
C3_LabelFollowsRedshift ==
    changed =>
        LET rest == ~redshift_z.isNone /\ redshift_z.v > 0
        IN  /\ wavelength_textbox_label = slice_label
            /\ wavelength_textbox_label =
                 (IF rest THEN REST_WAVELENGTH_TEXT ELSE OBS_WAVELENGTH_TEXT)

\* A positive redshift was assigned after a non-positive one.
C3_Witness ==
    /\ changed
    /\ ~redshift_z.isNone /\ redshift_z.v > 0
    /\ slice_label = REST_WAVELENGTH_TEXT
    /\ last = "listener_new"

\* C4: on_combobox_change with no original wavelengths makes no call to the
\* layout, and the layout never holds the failure sentinel.
C4_ComboboxFailsClosed ==
    (last = "on_combobox_change" /\ original_wavelengths = PyNone) =>
        /\ calls = <<>>
        /\ layout_wavelengths.vals # PyFalse

\* C5: in one exchange each controller broadcasts at most once, and every
\* pending delivery is made: the exchange ends.
C5_ExchangeTerminates ==
    /\ [](emits.cubeviz <= 1 /\ emits.specviz <= 1)
    /\ (bus # <<>>) ~> (bus = <<>>)

\* An exchange in which both controllers broadcast once has ended.
C5_Witness ==
    /\ bus = <<>>
    /\ emits.cubeviz = 1 /\ emits.specviz = 1
    /\ companion_z = redshift_z
    /\ redshift_z # Z(0)

\* The types a CubeVizUnit can have.
CubeVizUnitTypes ==
    {"NoneUnit", "UnknownUnit", "SpectralFluxDensity", "FormattedSpectralFluxDensity"}

\* C6: add_component_unit with a unit that is absent or a string never
\* raises: it returns a CubeVizUnit and stores it under the string form of
\* the component id, whatever the registered-aliases table holds.
C6_AddNeverFails ==
    (f_last.op = "add_component_unit" /\ f_last.unit.ty \in {"none", "str"}) =>
        /\ f_raised = "none"
        /\ f_ret.type \in CubeVizUnitTypes
        /\ f_last.id \in DOMAIN components
        /\ components[f_last.id] = f_ret

\* C7: a new_units entry whose name the unit system already defines raises
\* nothing and registers the unit of that name.
C7_ConflictReusesExisting ==
    (f_last.op = "load" /\ f_last.id \in BuiltinNames) =>
        /\ f_raised = "none"
        /\ phase # "failed"
        /\ f_last.unit = UnitItem(f_last.id, 1)

\* C8: add_component_unit classifies an absent or empty unit as NoneUnit, and
\* a unit string that is a key of registered_units as a convertible
\* FormattedSpectralFluxDensity.
C8_Classification ==
    f_last.op = "add_component_unit" =>
        /\ f_last.unit \in {NoneItem, StrItem("")} =>
             f_raised = "none" /\ f_ret.type = "NoneUnit"
        /\ (f_last.unit.ty = "str" /\ f_last.unit.name # ""
              /\ f_last.unit.name \in DOMAIN registered_units) =>
             /\ f_raised = "none"
             /\ f_ret.type = "FormattedSpectralFluxDensity"
             /\ f_ret.is_convertable

\* C9: after set_data the keys of the component map are exactly the string
\* forms of the dataset's visible components, each classified from its
\* declared unit.
C9_SetDataReplaces ==
    f_last.op = "set_data" =>
        LET comps == data.visible_components
        IN  /\ DOMAIN components = {comps[i].cid.label : i \in 1..Len(comps)}
            /\ \A i \in 1..Len(comps) :
                 LET cu == components[comps[i].cid.label]
                 IN  /\ comps[i].units = "" => cu.type = "NoneUnit"
                     /\ comps[i].units = "Jy" => cu.type = "SpectralFluxDensity"
                     /\ comps[i].units \in DOMAIN registered_units =>
                          cu.type = "FormattedSpectralFluxDensity"

\* Ascending, no string twice.
StrictlyAscending(list) ==
    \A i \in 1..(Len(list) - 1) : StrLess(list[i], list[i + 1])

\* C10: every listing of the flux registry and of the area registry, under
\* each filter, is sorted ascending and holds no string twice.
C10_ListingsSortedUnique ==
    /\ StrictlyAscending(flux_get_unit_list(runtime_defined_units))
    /\ \A po \in BOOLEAN, so \in BOOLEAN :
         StrictlyAscending(area_get_unit_list(runtime_pixel_units,
                               runtime_solid_angle_units, po, so))

\* The same unit stands in a runtime list once as a string and once as a
\* unit object, and the flux list holds a unit the built-in list holds too.
C10_Witness ==
    /\ \E i, j \in 1..Len(runtime_pixel_units) :
         /\ runtime_pixel_units[i].ty = "str"
         /\ runtime_pixel_units[j].ty = "unit"
         /\ runtime_pixel_units[i].name = to_string(runtime_pixel_units[j])
    /\ Len(runtime_defined_units) >= 2
    /\ Contains(runtime_defined_units, UnitItem("Jy", 1), enabled)

\* The strings of a listing, as a set.
Listed(unit_list) == {unit_list[i] : i \in 1..Len(unit_list)}

\* A CubeVizUnit that is a SpectralFluxDensity holding a flux sub-unit.
HasFluxSubUnit(cu) ==
    /\ cu.type \in {"SpectralFluxDensity", "FormattedSpectralFluxDensity"}
    /\ cu.spectral_flux_density.ty = "unit"

\* C11: when add_component_unit returns a SpectralFluxDensity, the string
\* form of its spectral_flux_density sub-unit is in
\* FLUX_UNIT_REGISTRY.get_unit_list(), then and for as long as the component
\* map holds the returned unit.
C11_SubUnitListed ==
    LET listing == Listed(flux_get_unit_list(runtime_defined_units))
    IN  /\ (f_last.op = "add_component_unit" /\ f_raised = "none"
              /\ HasFluxSubUnit(f_ret)) =>
                to_string(f_ret.spectral_flux_density) \in listing
        /\ \A k \in DOMAIN components :
             HasFluxSubUnit(components[k]) =>
                to_string(components[k].spectral_flux_density) \in listing

\* list `a` is the beginning of list `b`.
IsPrefix(a, b) == Len(a) <= Len(b) /\ \A i \in 1..Len(a) : b[i] = a[i]

\* No item is held at two positions.
HeldOnce(list) ==
    \A i, j \in 1..Len(list) : i # j => list[i] # list[j]

\* What one add of `item` does to a runtime list, from `before` to `after`.
AddEffect(before, after, item) ==
    LET valid == item.ty \in {"str", "unit"}
        present == Contains(before, item, enabled)
    IN  /\ ~valid => after = before
        /\ present => after = before
        /\ (valid /\ ~present) => after = Append(before, item)
        /\ valid => \E i \in 1..Len(after) :
                        after[i] = item \/ PyEq(after[i], item, enabled)

InUnit(vals, orig, unit) ==
    /\ Len(vals) = Len(orig)
    /\ \A i \in 1..Len(orig) :
         /\ vals[i].k = "fin" /\ vals[i].n = orig[i].n /\ vals[i].d = orig[i].d
         /\ vals[i].e = orig[i].e + UnitExp(unit)

\* C13: on_combobox_change leaves the stored redshift and the wavelength
\* label as they are and broadcasts nothing; with original wavelengths set,
\* what it pushes to the layout is those wavelengths in the selected unit,
\* whatever the redshift is.
C13_ComboboxFrame ==
    [][last' = "on_combobox_change" =>
          /\ redshift_z' = redshift_z
          /\ wavelength_textbox_label' = wavelength_textbox_label
          /\ emits' = emits
          /\ \A i \in 1..Len(calls') : calls'[i] # "emit"
          /\ (raised' = "none" /\ original_wavelengths # PyNone) =>
                /\ new_units' \in {units[i] : i \in 1..Len(units)}
                /\ layout_wavelengths'.unit = new_units'
                /\ layout_wavelengths'.vals.tag = "array"
                /\ InUnit(layout_wavelengths'.vals.vals, original_wavelengths.vals,
                          new_units')]_vars

\* A unit change to centimetres made at redshift 1: the layout, which held
\* the scaled wavelengths, holds the original ones in centimetres.
C13_Witness ==
    /\ last = "on_combobox_change"
    /\ raised = "none"
    /\ redshift_z = Z(1)
    /\ wavelength_textbox_label = REST_WAVELENGTH_TEXT
    /\ original_wavelengths # PyNone
    /\ layout_wavelengths.unit = "cm"
    /\ InUnit(layout_wavelengths.vals.vals, original_wavelengths.vals, "cm")

====
